---- MODULE Spec2Model ----
(***************************************************************************)
(* pinns: pin Linux namespaces to files.                                   *)
(*                                                                         *)
(* The model follows src/src/lib.rs (Pinns::run and the steps it calls)    *)
(* and src/src/config.rs (Config::validate, the Namespaces registry).      *)
(* Every system call of a run is one step of the calling process, so that  *)
(* the file system can be observed between any two of them.                *)
(***************************************************************************)
EXTENDS Integers, Sequences, FiniteSets, TLC

\* ------------------------------------------------------------------ bounds

\* Calls one process makes, one after the other, where a process makes
\* more than the one call of main.rs.
MaxCalls == 2
\* Namespace kinds one configuration asks for, at most.
MaxRequested == 3
\* Entries found below the target directory before the first call.
MaxPreexisting == 1

\* The largest number of kinds requested by processes that call
\* Config::validate at the same time on one target directory.
MaxRaced == 2
\* The same for processes that call Pinns::run at the same time.
MaxRunRaced == 2

\* ------------------------------------------------------- the fixed catalog

Procs == {"p1", "p2"}

\* The kinds Pinns::unshare and Pinns::bind_namespaces test, in their order.
BindOrder == <<"cgroup", "ipc", "net", "pid", "user", "uts">>

Kinds == {BindOrder[i] : i \in 1..Len(BindOrder)}

\* Namespaces::default, in the order of IntoIterator for &Namespaces: the
\* registry has no entry for the user namespace.
Namespaces ==
  << [name |-> "cgroup", clone_flag |-> "CLONE_NEWCGROUP"],
     [name |-> "ipc",    clone_flag |-> "CLONE_NEWIPC"],
     [name |-> "net",    clone_flag |-> "CLONE_NEWNET"],
     [name |-> "pid",    clone_flag |-> "CLONE_NEWPID"],
     [name |-> "uts",    clone_flag |-> "CLONE_NEWUTS"] >>

\* ------------------------------------------------------------ configuration

TargetDir == <<"pins">>

FileNames == {"ns1"}

\* The struct Config: dir, filename and one flag per kind.  config.rs declares
\* no user flag although lib.rs reads one: see user below.
Configs ==
  { c \in [dir : {TargetDir}, filename : FileNames,
           cgroup : BOOLEAN, ipc : BOOLEAN, net : BOOLEAN,
           pid : BOOLEAN, user : BOOLEAN, uts : BOOLEAN] :
      Cardinality({k \in {"cgroup", "ipc", "net", "pid", "user", "uts"} :
                     c[k]}) <= MaxRequested }

\* Config::dir and Config::filename (getset getters).
dir(c) == c.dir

filename(c) == c.filename

\* The flag getters lib.rs calls.
cgroup(c) == c.cgroup

ipc(c) == c.ipc

net(c) == c.net

pid(c) == c.pid

uts(c) == c.uts

\* self.config.user() is called by lib.rs and declared nowhere in config.rs;
\* it is taken to be one more boolean flag of the configuration.
user(c) == c.user

\* The condition guarding kind k in Pinns::unshare and Pinns::bind_namespaces.
ConfigFlag(c, k) ==
  CASE k = "cgroup" -> cgroup(c)
    [] k = "ipc"    -> ipc(c)
    [] k = "net"    -> net(c)
    [] k = "pid"    -> pid(c)
    [] k = "user"   -> user(c)
    [] k = "uts"    -> uts(c)

\* The kinds a configuration asks for.
Requested(c) == {k \in Kinds : ConfigFlag(c, k)}

\* ------------------------------------------------------------------- paths

\* PathBuf::join with a relative component.
join(path, name) == Append(path, name)

\* Config::parent_dir_for_namespace: dir/<name>ns.
parent_dir_for_namespace(c, name) == join(dir(c), name \o "ns")

\* The bind path Pinns::bind_namespace computes: dir/<name>.
bind_path(c, name) == join(dir(c), name)

\* The source of the bind mount: /proc/self/ns/<name>.
ns_path(name) == join(<<"proc", "self", "ns">>, name)

\* The layout config.rs documents for a pinned namespace:
\* `dir`/`namespace.name`ns/`filename`.
DocumentedPath(c, name) == join(parent_dir_for_namespace(c, name), filename(c))

Parent(path) == SubSeq(path, 1, Len(path) - 1)

\* Every path the model's file system holds.
Paths ==
  {TargetDir}
    \cup {join(TargetDir, k) : k \in Kinds}
    \cup {join(TargetDir, k \o "ns") : k \in Kinds}
    \cup {join(join(TargetDir, k \o "ns"), f) : k \in Kinds, f \in FileNames}

FileTypes == {"absent", "file", "dir"}

\* Path::exists.
exists(f, path) == f[path] # "absent"

\* A faulty is_dir: anything at the path counts as a directory.
is_dir_or_file(f, path) == f[path] # "absent"

\* metadata(path)?.is_dir().
is_dir(f, path) == f[path] = "dir"

\* ------------------------------------------------------------------- state

VARIABLES
  fs,         \* the file system: path -> "absent" | "file" | "dir"
  mounts,     \* the bind mounts in place: records [source, target, proc]
  cfg,        \* per process: its Config
  enabled,    \* per process: the names whose Namespace.enabled is true
  loggerSet,  \* per process: a global logger is installed
  pc,         \* per process: the step it is at
  op,         \* per process: the call in progress, "run" or "validate"
  ns_i,       \* per process: position of validate's loop over enabled kinds
  bind_i,     \* per process: position of bind_namespaces in BindOrder
  vres,       \* per process: what validate returned in the call in progress
  fsStart,    \* per process: the file system when the call in progress began
  trace,      \* per process: the system calls of the call in progress
  log,        \* per process: the calls that returned, with their results
  budget,     \* per process: the calls it makes before it exits
  argv        \* per process: the namespace flags of its command line, in order

vars == <<fs, mounts, cfg, enabled, loggerSet, pc, op, ns_i, bind_i,
          vres, fsStart, trace, log, budget, argv>>

Ok == [ok |-> TRUE, msg |-> "", errno |-> "", kind |-> ""]

\* An anyhow error: the message of bail! or context, the errno below it and
\* the namespace kind it is about ("" when it is about none).
Err(msg, errno, kind) == [ok |-> FALSE, msg |-> msg, errno |-> errno, kind |-> kind]

\* validate has not returned in the call in progress.
NotReturned == [ok |-> FALSE, msg |-> "not returned", errno |-> "", kind |-> ""]

\* One system call of a call in progress: which call, the namespace kind and
\* the path it is about, the flags of an unshare, and the errno it failed
\* with ("" when it succeeded).
Event(ev, kind, path, flags, errno) ==
  [ev |-> ev, kind |-> kind, path |-> path, flags |-> flags, errno |-> errno]

\* The system call succeeded.
Succeeded(ev) == ev.errno = ""

\* ----------------------------------------------------------- initial state

\* What may lie below the target directory before the first call: a file at a
\* bind path, a file or a directory at a per-kind subdirectory path, or a
\* file already pinned at the documented path (inside its subdirectory).
Candidates ==
  {<<join(TargetDir, k), "file">> : k \in Kinds}
    \cup {<<join(TargetDir, k \o "ns"), t>> : k \in Kinds, t \in {"file", "dir"}}
    \cup {<<join(join(TargetDir, k \o "ns"), f), "file">> :
            k \in Kinds, f \in FileNames}

RECURSIVE UpTo(_, _)
\* The subsets of S with at most n elements.
UpTo(S, n) ==
  IF n = 0 THEN {{}}
  ELSE LET R == UpTo(S, n - 1) IN R \cup {T \cup {x} : T \in R, x \in S}

\* No path is given two types and nothing lies below a regular file.
Consistent(E) ==
  \A e1, e2 \in E :
    /\ (e1[1] = e2[1] => e1 = e2)
    /\ (Parent(e1[1]) = e2[1] => e2[2] = "dir")

\* The file system with the target directory of type root holding E.
FsOf(root, E) ==
  [path \in Paths |->
     IF path = TargetDir THEN root
     ELSE IF root # "dir" THEN "absent"
     ELSE IF \E e \in E : e[1] = path
          THEN (CHOOSE e \in E : e[1] = path)[2]
     ELSE IF \E e \in E : Parent(e[1]) = path THEN "dir"
     ELSE "absent"]

InitialFileSystems ==
  {FsOf("absent", {}), FsOf("file", {})}
    \cup {FsOf("dir", E) : E \in {X \in UpTo(Candidates, MaxPreexisting) :
                                    Consistent(X)}}

\* A configuration that asks for nothing: the one of a process that never runs.
NoConfig ==
  [dir |-> TargetDir, filename |-> CHOOSE f \in FileNames : TRUE,
   cgroup |-> FALSE, ipc |-> FALSE, net |-> FALSE,
   pid |-> FALSE, user |-> FALSE, uts |-> FALSE]

\* What is common to every initial state: nothing mounted by a run, no logger,
\* Namespaces::default (every enabled field false), no call made.
\* The command lines: the flags --cgroup, --ipc, --net, --pid, --user and
\* --uts, each given at most once, in any order.
Argvs ==
  {a \in UNION {[1..n -> Kinds] : n \in 0..MaxRequested} :
     \A i, j \in DOMAIN a : a[i] = a[j] => i = j}

\* A faulty parse: only the first flag of the command line is looked at.
parse_first_only(args) ==
  [dir |-> TargetDir, filename |-> CHOOSE f \in FileNames : TRUE,
   cgroup |-> args # <<>> /\ args[1] = "cgroup",
   ipc    |-> args # <<>> /\ args[1] = "ipc",
   net    |-> args # <<>> /\ args[1] = "net",
   pid    |-> args # <<>> /\ args[1] = "pid",
   user   |-> args # <<>> /\ args[1] = "user",
   uts    |-> args # <<>> /\ args[1] = "uts"]

\* Config::default, that is clap's Config::parse: a flag of the Config is
\* true when it is given somewhere on the command line.
parse(args) ==
  [dir |-> TargetDir, filename |-> CHOOSE f \in FileNames : TRUE,
   cgroup |-> \E i \in DOMAIN args : args[i] = "cgroup",
   ipc    |-> \E i \in DOMAIN args : args[i] = "ipc",
   net    |-> \E i \in DOMAIN args : args[i] = "net",
   pid    |-> \E i \in DOMAIN args : args[i] = "pid",
   user   |-> \E i \in DOMAIN args : args[i] = "user",
   uts    |-> \E i \in DOMAIN args : args[i] = "uts"]

\* A command line that gives the Config c: its flags in the order of --help.
CommandLine(c) ==
  LET given(k) == c[k] IN SelectSeq(BindOrder, given)

InitCommon ==
  /\ fs \in InitialFileSystems
  /\ mounts = {}
  /\ enabled = [p \in Procs |-> {}]
  /\ loggerSet = [p \in Procs |-> FALSE]
  /\ op = [p \in Procs |-> "none"]
  /\ ns_i = [p \in Procs |-> 0]
  /\ bind_i = [p \in Procs |-> 0]
  /\ vres = [p \in Procs |-> NotReturned]
  /\ fsStart = [p \in Procs |-> fs]
  /\ trace = [p \in Procs |-> <<>>]
  /\ log = [p \in Procs |-> <<>>]

\* One process with any configuration, which makes one call and exits: run
\* as in main.rs, or validate as in a test of config.rs.  The target
\* directory has no other writer.
Init ==
  /\ InitCommon
  /\ \E c \in Configs : cfg = [p \in Procs |-> IF p = "p1" THEN c ELSE NoConfig]
  /\ pc = [p \in Procs |-> IF p = "p1" THEN "idle" ELSE "off"]
  /\ budget = [p \in Procs |-> IF p = "p1" THEN 1 ELSE 0]
  /\ argv = [p \in Procs |-> CommandLine(cfg[p])]

\* ------------------------------------------------------------------ helpers

\* The call in progress of process p returns res: it is logged with the file
\* system it started from, the file system and the mounts it leaves, what
\* validate returned in it and its system calls.
Return(p, res) ==
  /\ pc' = [pc EXCEPT ![p] = "idle"]
  /\ log' = [log EXCEPT ![p] =
               Append(@, [op |-> op[p], res |-> res, vres |-> vres'[p],
                          fsStart |-> fsStart[p], fsEnd |-> fs',
                          mountsEnd |-> mounts', trace |-> trace'[p]])]

\* A faulty UnshareFlags: the branch of the PID namespace adds the flag of
\* the branch copied from above it.
UnshareFlags_pid_as_net(c) ==
  (IF cgroup(c) THEN {"CLONE_NEWCGROUP"} ELSE {})
    \cup (IF ipc(c) THEN {"CLONE_NEWIPC"} ELSE {})
    \cup (IF net(c) THEN {"CLONE_NEWNET"} ELSE {})
    \cup (IF pid(c) THEN {"CLONE_NEWNET"} ELSE {})
    \cup (IF user(c) THEN {"CLONE_NEWUSER"} ELSE {})
    \cup (IF uts(c) THEN {"CLONE_NEWUTS"} ELSE {})

\* The flags Pinns::unshare composes.
UnshareFlags(c) ==
  (IF cgroup(c) THEN {"CLONE_NEWCGROUP"} ELSE {})
    \cup (IF ipc(c) THEN {"CLONE_NEWIPC"} ELSE {})
    \cup (IF net(c) THEN {"CLONE_NEWNET"} ELSE {})
    \cup (IF pid(c) THEN {"CLONE_NEWPID"} ELSE {})
    \cup (IF user(c) THEN {"CLONE_NEWUSER"} ELSE {})
    \cup (IF uts(c) THEN {"CLONE_NEWUTS"} ELSE {})

\* A faulty NextBind: the branch of the user namespace is left out.
NextBind_without_user(c, i) ==
  LET S == {j \in i..Len(BindOrder) :
              BindOrder[j] # "user" /\ ConfigFlag(c, BindOrder[j])}
  IN  IF S = {} THEN 0 ELSE CHOOSE j \in S : \A k \in S : j <= k

\* The first position from i on in Pinns::bind_namespaces whose condition
\* holds, 0 when there is none.
NextBind(c, i) ==
  LET S == {j \in i..Len(BindOrder) : ConfigFlag(c, BindOrder[j])}
  IN  IF S = {} THEN 0 ELSE CHOOSE j \in S : \A k \in S : j <= k

\* ------------------------------------------------------------------ actions

\* Pinns::run is called.
run(p) ==
  /\ pc[p] = "idle"
  /\ Len(log[p]) < budget[p]
  /\ pc' = [pc EXCEPT ![p] = "init_logging"]
  /\ op' = [op EXCEPT ![p] = "run"]
  /\ fsStart' = [fsStart EXCEPT ![p] = fs]
  /\ trace' = [trace EXCEPT ![p] = <<>>]
  /\ vres' = [vres EXCEPT ![p] = NotReturned]
  /\ UNCHANGED <<fs, mounts, cfg, enabled, loggerSet, ns_i, bind_i, log, budget, argv>>

\* Config::validate is called on its own, as the tests of config.rs do.
call_validate(p) ==
  /\ pc[p] = "idle"
  /\ Len(log[p]) < budget[p]
  /\ pc' = [pc EXCEPT ![p] = "validate"]
  /\ op' = [op EXCEPT ![p] = "validate"]
  /\ fsStart' = [fsStart EXCEPT ![p] = fs]
  /\ trace' = [trace EXCEPT ![p] = <<>>]
  /\ vres' = [vres EXCEPT ![p] = NotReturned]
  /\ UNCHANGED <<fs, mounts, cfg, enabled, loggerSet, ns_i, bind_i, log, budget, argv>>

\* A faulty init_logging: the result of try_init is not looked at.
init_logging_unchecked(p) ==
  /\ pc[p] = "init_logging"
  /\ UNCHANGED <<fs, mounts, cfg, enabled, op, ns_i, bind_i, vres, fsStart, trace, budget, argv>>
  /\ loggerSet' = [loggerSet EXCEPT ![p] = TRUE]
  /\ pc' = [pc EXCEPT ![p] = "validate"]
  /\ UNCHANGED log

\* Pinns::init_logging: try_init fails when a logger is already installed.
init_logging(p) ==
  /\ pc[p] = "init_logging"
  /\ UNCHANGED <<fs, mounts, cfg, enabled, op, ns_i, bind_i, vres, fsStart, trace, budget, argv>>
  /\ IF loggerSet[p]
     THEN /\ UNCHANGED loggerSet
          /\ Return(p, Err("unable to init logger", "", ""))
     ELSE /\ loggerSet' = [loggerSet EXCEPT ![p] = TRUE]
          /\ pc' = [pc EXCEPT ![p] = "validate"]
          /\ UNCHANGED log

\* Config::validate returns Ok: run goes on to unshare, a direct call returns.
validate_ok(p) ==
  /\ vres' = [vres EXCEPT ![p] = Ok]
  /\ IF op[p] = "run"
     THEN pc' = [pc EXCEPT ![p] = "unshare"] /\ UNCHANGED log
     ELSE Return(p, Ok)

\* A faulty validate_err: run drops the error of validate and goes on.
validate_err_dropped(p, res) ==
  /\ vres' = [vres EXCEPT ![p] = res]
  /\ IF op[p] = "run"
     THEN pc' = [pc EXCEPT ![p] = "unshare"] /\ UNCHANGED log
     ELSE Return(p, res)

\* Config::validate returns the error res, which run hands on with `?`.
validate_err(p, res) ==
  /\ vres' = [vres EXCEPT ![p] = res]
  /\ Return(p, res)

\* A faulty EnabledNamespaces: the registry is gone through from its end.
EnabledNamespaces_reversed(en) ==
  LET s == SelectSeq(Namespaces, LAMBDA ns : ns.name \in en)
  IN  [i \in DOMAIN s |-> s[Len(s) + 1 - i]]

\* self.namespaces().into_iter().filter(|x| x.enabled()), the enabled fields
\* being those of the names in en.
EnabledNamespaces(en) == SelectSeq(Namespaces, LAMBDA ns : ns.name \in en)

\* A faulty all_disabled: the negation is lost, all(|x| x.enabled()).
all_enabled(en) == \A i \in 1..Len(Namespaces) : Namespaces[i].name \in en

\* self.namespaces().into_iter().all(|x| !x.enabled()).
all_disabled(en) == \A i \in 1..Len(Namespaces) : Namespaces[i].name \notin en

\* The loop of Config::validate moves past position i of the enabled
\* namespaces en: to the next one, or out of the loop.
validate_next(p, en, i) ==
  IF i < Len(EnabledNamespaces(en))
  THEN /\ ns_i' = [ns_i EXCEPT ![p] = i + 1]
       /\ pc' = [pc EXCEPT ![p] = "check_dir"]
       /\ UNCHANGED <<vres, log>>
  ELSE /\ ns_i' = [ns_i EXCEPT ![p] = i]
       /\ validate_ok(p)

\* Config::validate up to its loop: the enabled fields are set from the
\* flags, then the selection and the target directory are checked.
validate(p) ==
  /\ pc[p] = "validate"
  /\ enabled' = [enabled EXCEPT ![p] =
                   {Namespaces[i].name : i \in
                      {j \in 1..Len(Namespaces) :
                         ConfigFlag(cfg[p], Namespaces[j].name)}}]
  /\ UNCHANGED <<fs, mounts, cfg, loggerSet, op, bind_i, fsStart, trace, budget, argv>>
  /\ IF all_disabled(enabled'[p])
     THEN /\ UNCHANGED ns_i
          /\ validate_err(p, Err("no namespace specified for pinning", "", ""))
     ELSE IF ~exists(fs, dir(cfg[p]))
     THEN /\ UNCHANGED ns_i
          /\ validate_err(p, Err("pin path does not exist", "", ""))
     ELSE IF ~is_dir(fs, dir(cfg[p]))
     THEN /\ UNCHANGED ns_i
          /\ validate_err(p, Err("pin path is not a directory", "", ""))
     ELSE validate_next(p, enabled'[p], 0)

\* A faulty validate_check_dir: create_dir is called without the check that
\* the path does not exist yet.
validate_check_dir_always_create(p) ==
  /\ pc[p] = "check_dir"
  /\ pc' = [pc EXCEPT ![p] = "create_dir"]
  /\ UNCHANGED <<fs, mounts, cfg, enabled, loggerSet, op, ns_i, bind_i, vres,
                 fsStart, trace, log, budget, argv>>

\* A faulty validate_check_dir: the negation of parent_dir.exists() is lost,
\* so that create_dir is called for a path that exists and metadata for one
\* that does not.
validate_check_dir_exists_negated(p) ==
  /\ pc[p] = "check_dir"
  /\ UNCHANGED <<fs, mounts, cfg, enabled, loggerSet, op, bind_i, fsStart, trace, budget, argv>>
  /\ LET ns == EnabledNamespaces(enabled[p])[ns_i[p]]
         parent_dir == parent_dir_for_namespace(cfg[p], ns.name)
     IN  IF exists(fs, parent_dir)
         THEN /\ pc' = [pc EXCEPT ![p] = "create_dir"]
              /\ UNCHANGED <<ns_i, vres, log>>
         ELSE /\ UNCHANGED ns_i
              /\ validate_err(p, Err("metadata", "ENOENT", ns.name))

\* One turn of the loop of Config::validate: parent_dir.exists() and, when
\* the path exists, metadata(parent_dir)?.is_dir().
validate_check_dir(p) ==
  /\ pc[p] = "check_dir"
  /\ UNCHANGED <<fs, mounts, cfg, enabled, loggerSet, op, bind_i, fsStart, trace, budget, argv>>
  /\ LET ns == EnabledNamespaces(enabled[p])[ns_i[p]]
         parent_dir == parent_dir_for_namespace(cfg[p], ns.name)
     IN  IF ~exists(fs, parent_dir)
         THEN /\ pc' = [pc EXCEPT ![p] = "create_dir"]
              /\ UNCHANGED <<ns_i, vres, log>>
         ELSE IF ~is_dir(fs, parent_dir)
         THEN /\ UNCHANGED ns_i
              /\ validate_err(p, Err("pin path is not a directory", "", ns.name))
         ELSE validate_next(p, enabled[p], ns_i[p])

\* create_dir(parent_dir)? of Config::validate: it fails when the path exists
\* by now or the directory above is no directory, and may fail for a reason
\* of the environment (EACCES, ENOSPC).
validate_create_dir(p) ==
  /\ pc[p] = "create_dir"
  /\ UNCHANGED <<mounts, cfg, enabled, loggerSet, op, bind_i, fsStart, budget, argv>>
  /\ LET ns == EnabledNamespaces(enabled[p])[ns_i[p]]
         parent_dir == parent_dir_for_namespace(cfg[p], ns.name)
         failed(errno) ==
           /\ trace' = [trace EXCEPT ![p] =
                          Append(@, Event("create_dir", ns.name, parent_dir, {}, errno))]
           /\ UNCHANGED <<fs, ns_i>>
           /\ validate_err(p, Err("create_dir", errno, ns.name))
     IN  IF exists(fs, parent_dir) THEN failed("EEXIST")
         ELSE IF ~is_dir(fs, Parent(parent_dir)) THEN failed("ENOENT")
         ELSE \/ /\ fs' = [fs EXCEPT ![parent_dir] = "dir"]
                 /\ trace' = [trace EXCEPT ![p] =
                                Append(@, Event("create_dir", ns.name, parent_dir, {}, ""))]
                 /\ validate_next(p, enabled[p], ns_i[p])
              \/ failed("EIO")

\* Pinns::bind_namespaces moves to the first kind from position i on whose
\* condition holds and returns Ok(()) when there is none left.
bind_namespaces(p, i) ==
  LET j == NextBind(cfg[p], i)
  IN  IF j = 0
      THEN /\ UNCHANGED bind_i
           /\ Return(p, Ok)
      ELSE /\ bind_i' = [bind_i EXCEPT ![p] = j]
           /\ pc' = [pc EXCEPT ![p] = "open"]
           /\ UNCHANGED log

\* A faulty unshare: the error of the unshare call is dropped and the binds
\* are made all the same.
unshare_error_dropped(p) ==
  /\ pc[p] = "unshare"
  /\ UNCHANGED <<fs, mounts, cfg, enabled, loggerSet, op, ns_i, vres, fsStart, budget, argv>>
  /\ LET flags == UnshareFlags(cfg[p])
     IN  \/ /\ trace' = [trace EXCEPT ![p] =
                           Append(@, Event("unshare", "", <<>>, flags, ""))]
            /\ bind_namespaces(p, 1)
         \/ /\ trace' = [trace EXCEPT ![p] =
                           Append(@, Event("unshare", "", <<>>, flags, "EPERM"))]
            /\ bind_namespaces(p, 1)

\* Pinns::unshare: one unshare call with the composed flags, which the
\* kernel may refuse (EPERM, EINVAL).
unshare(p) ==
  /\ pc[p] = "unshare"
  /\ UNCHANGED <<fs, mounts, cfg, enabled, loggerSet, op, ns_i, vres, fsStart, budget, argv>>
  /\ LET flags == UnshareFlags(cfg[p])
     IN  \/ /\ trace' = [trace EXCEPT ![p] =
                           Append(@, Event("unshare", "", <<>>, flags, ""))]
            /\ bind_namespaces(p, 1)
         \/ /\ trace' = [trace EXCEPT ![p] =
                           Append(@, Event("unshare", "", <<>>, flags, "EPERM"))]
            /\ UNCHANGED bind_i
            /\ Return(p, Err("failed to unshare namespaces", "EPERM", ""))

\* A faulty bind_namespace_open: when the file cannot be created, the files
\* and mounts this run made before are removed again.
bind_namespace_open_rollback(p) ==
  /\ pc[p] = "open"
  /\ UNCHANGED <<cfg, enabled, loggerSet, op, ns_i, bind_i, vres, fsStart, budget, argv>>
  /\ LET name == BindOrder[bind_i[p]]
         path == bind_path(cfg[p], name)
         made == {trace[p][i].path : i \in
                    {j \in DOMAIN trace[p] :
                       trace[p][j].ev = "open" /\ Succeeded(trace[p][j])}}
         failed(errno) ==
           /\ trace' = [trace EXCEPT ![p] =
                          Append(@, Event("open", name, path, {}, errno))]
           /\ fs' = [q \in Paths |-> IF q \in made THEN "absent" ELSE fs[q]]
           /\ mounts' = {m \in mounts : m.target \notin made}
           /\ Return(p, Err("unable to create namespace file", errno, name))
     IN  IF exists(fs, path) THEN failed("EEXIST")
         ELSE IF ~is_dir(fs, Parent(path)) THEN failed("ENOENT")
         ELSE \/ /\ fs' = [fs EXCEPT ![path] = "file"]
                 /\ trace' = [trace EXCEPT ![p] =
                                Append(@, Event("open", name, path, {}, ""))]
                 /\ pc' = [pc EXCEPT ![p] = "close"]
                 /\ UNCHANGED <<mounts, log>>
              \/ failed("EIO")

\* A faulty bind_namespace_open: the file is opened with O_CREAT alone, so a
\* file that is there already is opened as it is.
bind_namespace_open_not_exclusive(p) ==
  /\ pc[p] = "open"
  /\ UNCHANGED <<mounts, cfg, enabled, loggerSet, op, ns_i, bind_i, vres, fsStart, budget, argv>>
  /\ LET name == BindOrder[bind_i[p]]
         path == bind_path(cfg[p], name)
         failed(errno) ==
           /\ trace' = [trace EXCEPT ![p] =
                          Append(@, Event("open", name, path, {}, errno))]
           /\ UNCHANGED fs
           /\ Return(p, Err("unable to create namespace file", errno, name))
     IN  IF fs[path] = "dir" THEN failed("EISDIR")
         ELSE IF ~is_dir(fs, Parent(path)) THEN failed("ENOENT")
         ELSE \/ /\ fs' = [fs EXCEPT ![path] = "file"]
                 /\ trace' = [trace EXCEPT ![p] =
                                Append(@, Event("open", name, path, {}, ""))]
                 /\ pc' = [pc EXCEPT ![p] = "close"]
                 /\ UNCHANGED log
              \/ failed("EIO")

\* Pinns::bind_namespace, first system call: open(bind_path, O_RDONLY |
\* O_CREAT | O_EXCL).  It fails with EEXIST when anything is at the path,
\* with ENOENT when the directory above is missing, and may fail for a
\* reason of the environment.
bind_namespace_open(p) ==
  /\ pc[p] = "open"
  /\ UNCHANGED <<mounts, cfg, enabled, loggerSet, op, ns_i, bind_i, vres, fsStart, budget, argv>>
  /\ LET name == BindOrder[bind_i[p]]
         path == bind_path(cfg[p], name)
         failed(errno) ==
           /\ trace' = [trace EXCEPT ![p] =
                          Append(@, Event("open", name, path, {}, errno))]
           /\ UNCHANGED fs
           /\ Return(p, Err("unable to create namespace file", errno, name))
     IN  IF exists(fs, path) THEN failed("EEXIST")
         ELSE IF ~is_dir(fs, Parent(path)) THEN failed("ENOENT")
         ELSE \/ /\ fs' = [fs EXCEPT ![path] = "file"]
                 /\ trace' = [trace EXCEPT ![p] =
                                Append(@, Event("open", name, path, {}, ""))]
                 /\ pc' = [pc EXCEPT ![p] = "close"]
                 /\ UNCHANGED log
              \/ failed("EIO")

\* Pinns::bind_namespace, second system call: close(fd).
bind_namespace_close(p) ==
  /\ pc[p] = "close"
  /\ UNCHANGED <<fs, mounts, cfg, enabled, loggerSet, op, ns_i, bind_i, vres, fsStart, budget, argv>>
  /\ LET name == BindOrder[bind_i[p]]
         path == bind_path(cfg[p], name)
     IN  \/ /\ trace' = [trace EXCEPT ![p] =
                           Append(@, Event("close", name, path, {}, ""))]
            /\ pc' = [pc EXCEPT ![p] = "mount"]
            /\ UNCHANGED log
         \/ /\ trace' = [trace EXCEPT ![p] =
                           Append(@, Event("close", name, path, {}, "EIO"))]
            /\ Return(p, Err("unable to close file descriptor", "EIO", name))

\* A faulty bind_namespace_mount: when the mount fails, bind_namespaces goes
\* on with the kinds after this one instead of returning the error.
bind_namespace_mount_continue(p) ==
  /\ pc[p] = "mount"
  /\ UNCHANGED <<fs, cfg, enabled, loggerSet, op, ns_i, vres, fsStart, budget, argv>>
  /\ LET name == BindOrder[bind_i[p]]
         path == bind_path(cfg[p], name)
     IN  \/ /\ mounts' = mounts \cup
                           {[source |-> ns_path(name), target |-> path, proc |-> p]}
            /\ trace' = [trace EXCEPT ![p] =
                           Append(@, Event("mount", name, path, {}, ""))]
            /\ bind_namespaces(p, bind_i[p] + 1)
         \/ /\ trace' = [trace EXCEPT ![p] =
                           Append(@, Event("mount", name, path, {}, "EPERM"))]
            /\ UNCHANGED mounts
            /\ bind_namespaces(p, bind_i[p] + 1)

\* Pinns::bind_namespace, third system call: mount(/proc/self/ns/<name>,
\* bind_path, MS_BIND), which the kernel may refuse; then bind_namespaces
\* goes on with the kinds after this one.
bind_namespace_mount(p) ==
  /\ pc[p] = "mount"
  /\ UNCHANGED <<fs, cfg, enabled, loggerSet, op, ns_i, vres, fsStart, budget, argv>>
  /\ LET name == BindOrder[bind_i[p]]
         path == bind_path(cfg[p], name)
     IN  \/ /\ mounts' = mounts \cup
                           {[source |-> ns_path(name), target |-> path, proc |-> p]}
            /\ trace' = [trace EXCEPT ![p] =
                           Append(@, Event("mount", name, path, {}, ""))]
            /\ bind_namespaces(p, bind_i[p] + 1)
         \/ /\ trace' = [trace EXCEPT ![p] =
                           Append(@, Event("mount", name, path, {}, "EPERM"))]
            /\ UNCHANGED <<mounts, bind_i>>
            /\ Return(p, Err("unable to bind mount namespace", "EPERM", name))

\* ----------------------------------------------------------- specification

Next ==
  \E p \in Procs :
    \/ run(p)
    \/ call_validate(p)
    \/ init_logging(p)
    \/ validate(p)
    \/ validate_check_dir(p)
    \/ validate_create_dir(p)
    \/ unshare(p)
    \/ bind_namespace_open(p)
    \/ bind_namespace_close(p)
    \/ bind_namespace_mount(p)

Spec == Init /\ [][Next]_vars

\* One process that calls Config::validate up to MaxCalls times on the same
\* Config, one call after the other.
InitRepeated ==
  /\ InitCommon
  /\ \E c \in Configs : cfg = [p \in Procs |-> IF p = "p1" THEN c ELSE NoConfig]
  /\ pc = [p \in Procs |-> IF p = "p1" THEN "idle" ELSE "off"]
  /\ budget = [p \in Procs |-> IF p = "p1" THEN MaxCalls ELSE 0]
  /\ argv = [p \in Procs |-> CommandLine(cfg[p])]

NextValidate ==
  \E p \in Procs :
    \/ call_validate(p)
    \/ validate(p)
    \/ validate_check_dir(p)
    \/ validate_create_dir(p)

SpecValidate == InitRepeated /\ [][NextValidate]_vars

\* One process that calls Pinns::run up to MaxCalls times, one call after
\* the other, as a program using the library can.
NextRun ==
  \E p \in Procs :
    \/ run(p)
    \/ init_logging(p)
    \/ validate(p)
    \/ validate_check_dir(p)
    \/ validate_create_dir(p)
    \/ unshare(p)
    \/ bind_namespace_open(p)
    \/ bind_namespace_close(p)
    \/ bind_namespace_mount(p)

SpecRuns == InitRepeated /\ [][NextRun]_vars

\* Two processes that call Config::validate once each, at the same time, on
\* the same Config, that is on the same target directory.
InitRace ==
  /\ InitCommon
  /\ \E c \in Configs :
       /\ Cardinality(Requested(c)) <= MaxRaced
       /\ cfg = [p \in Procs |-> c]
  /\ pc = [p \in Procs |-> "idle"]
  /\ budget = [p \in Procs |-> 1]
  /\ argv = [p \in Procs |-> CommandLine(cfg[p])]

SpecRace == InitRace /\ [][NextValidate]_vars

\* Two processes that run the pinner once each, at the same time, with the
\* same target directory, a directory with nothing in it yet, and the same
\* file name and kinds.
InitRunRace ==
  /\ InitCommon
  /\ fs = FsOf("dir", {})
  /\ \E c \in Configs :
       /\ Cardinality(Requested(c)) <= MaxRunRaced
       /\ cfg = [p \in Procs |-> c]
  /\ pc = [p \in Procs |-> "idle"]
  /\ budget = [p \in Procs |-> 1]
  /\ argv = [p \in Procs |-> CommandLine(cfg[p])]

SpecRunRace == InitRunRace /\ [][NextRun]_vars

\* One process that runs the pinner once on a target directory with nothing
\* in it yet, with its flags in any order on the command line.
InitArgs ==
  /\ InitCommon
  /\ fs = FsOf("dir", {})
  /\ \E a \in Argvs :
       /\ argv = [p \in Procs |-> IF p = "p1" THEN a ELSE <<>>]
       /\ cfg = [p \in Procs |-> IF p = "p1" THEN parse(a) ELSE NoConfig]
  /\ pc = [p \in Procs |-> IF p = "p1" THEN "idle" ELSE "off"]
  /\ budget = [p \in Procs |-> IF p = "p1" THEN 1 ELSE 0]

SpecArgs == InitArgs /\ [][NextRun]_vars

\* ---------------------------------------------------------- type invariant

TypeOK ==
  /\ fs \in [Paths -> FileTypes]
  /\ \A path \in Paths \ {TargetDir} : exists(fs, path) => is_dir(fs, Parent(path))
  /\ \A p \in Procs :
       /\ pc[p] \in {"off", "idle", "init_logging", "validate", "check_dir",
                     "create_dir", "unshare", "open", "close", "mount"}
       /\ enabled[p] \subseteq Kinds
       /\ Len(log[p]) <= budget[p]

\* ------------------------------------------------------ reading the history

\* The calls of process p that returned.
Entries(p) == {log[p][i] : i \in DOMAIN log[p]}

\* The errors Config::validate returns.
ConfigErrors ==
  {"no namespace specified for pinning", "pin path does not exist",
   "pin path is not a directory", "create_dir"}

\* validate returned an error in the call in progress (or the last one).
ValidateFailed(p) == vres[p] # NotReturned /\ ~vres[p].ok

\* Position of kind k in the order of binding.
Position(k) == CHOOSE i \in DOMAIN BindOrder : BindOrder[i] = k

\* In the call with system calls t, the backing file of kind k was created at
\* some path and /proc/self/ns/<k> was then mounted onto that path.
BoundIn(t, k) ==
  \E i, j \in DOMAIN t :
    /\ i < j
    /\ t[i].ev = "open" /\ t[i].kind = k /\ Succeeded(t[i])
    /\ t[j].ev = "mount" /\ t[j].kind = k /\ Succeeded(t[j])
    /\ t[j].path = t[i].path

\* The returned run e of process p left kind k bound: created and mounted in
\* this run, the file and the mount in place when it returned.
Bound(p, e, k) ==
  /\ BoundIn(e.trace, k)
  /\ \E i \in DOMAIN e.trace :
       /\ e.trace[i].ev = "mount" /\ e.trace[i].kind = k /\ Succeeded(e.trace[i])
       /\ e.fsEnd[e.trace[i].path] = "file"
       /\ [source |-> ns_path(k), target |-> e.trace[i].path, proc |-> p]
            \in e.mountsEnd

\* ------------------------------------------------------------------ claims

\* C1: for every requested kind the backing file that is created and mounted
\* onto is target_directory/<kind>ns/file_name, and no backing file is
\* created at any other path.
C1_BackingFileAtDocumentedPath ==
  \A p \in Procs : \A i \in DOMAIN trace[p] :
    LET e == trace[p][i]
    IN  (e.ev \in {"open", "mount"} /\ Succeeded(e))
          => e.path = DocumentedPath(cfg[p], e.kind)

\* C2 as stated: a run returns success if and only if every requested kind
\* has had its backing file created and its namespace handle mounted onto it.
C2_SuccessIffAllBound ==
  \A p \in Procs : \A e \in Entries(p) :
    e.op = "run" =>
      (e.res.ok <=> \A k \in Requested(cfg[p]) : Bound(p, e, k))

\* C2 as amended: a run returns success if and only if at least one kind is
\* requested and every requested kind has had its backing file created and
\* its namespace handle mounted onto it; so a run never returns success with
\* a requested kind left unbound.
C2_SuccessIffRequestedAndAllBound ==
  \A p \in Procs : \A e \in Entries(p) :
    e.op = "run" =>
      (e.res.ok <=> /\ Requested(cfg[p]) # {}
                    /\ \A k \in Requested(cfg[p]) : Bound(p, e, k))

\* A run returned success with two kinds requested, both bound.
C2_Witness ==
  \E p \in Procs : \E e \in Entries(p) :
    /\ e.op = "run" /\ e.res.ok
    /\ Cardinality(Requested(cfg[p])) >= 2
    /\ \A k \in Requested(cfg[p]) : Bound(p, e, k)

\* C3: when no kind is requested validate fails with the configuration error
\* about the selection, whatever the state of the target directory; it never
\* gets to its loop and run never gets past it.
C3_EmptySelectionFails ==
  \A p \in Procs :
    Requested(cfg[p]) = {} =>
      /\ vres[p] \in {NotReturned, Err("no namespace specified for pinning", "", "")}
      /\ pc[p] \notin {"check_dir", "create_dir", "unshare", "open", "close", "mount"}
      /\ \A e \in Entries(p) :
           e.vres # NotReturned
             => e.res = Err("no namespace specified for pinning", "", "")

\* validate has failed on an empty selection although the target directory
\* is in order.
C3_Witness ==
  \E p \in Procs : \E e \in Entries(p) :
    /\ Requested(cfg[p]) = {}
    /\ e.vres = Err("no namespace specified for pinning", "", "")
    /\ e.fsStart[dir(cfg[p])] = "dir"

\* C4: when the target directory does not exist, or exists and is a regular
\* file, validate fails.
C4_BadTargetDirFails ==
  \A p \in Procs :
    (vres[p] # NotReturned /\ fsStart[p][dir(cfg[p])] \in {"absent", "file"})
      => /\ ~vres[p].ok
         /\ vres[p].msg \in ConfigErrors
         /\ (enabled[p] # {}
               => vres[p].msg = IF fsStart[p][dir(cfg[p])] = "file"
                                THEN "pin path is not a directory"
                                ELSE "pin path does not exist")

\* validate has failed on a target directory that is a regular file, with a
\* kind requested.
C4_Witness ==
  \E p \in Procs :
    /\ fsStart[p][dir(cfg[p])] = "file"
    /\ Requested(cfg[p]) # {}
    /\ vres[p] = Err("pin path is not a directory", "", "")

\* C5: in a run in which validate fails there is no unshare call, no backing
\* file is created and nothing is mounted; when validate fails because the
\* target directory is missing, the file system is left as it was.
C5_ValidateFailureTouchesNothing ==
  \A p \in Procs :
    ValidateFailed(p) =>
      /\ \A i \in DOMAIN trace[p] :
           trace[p][i].ev \notin {"unshare", "open", "close", "mount"}
      /\ \A m \in mounts : m.proc # p
      /\ \A path \in Paths : fs[path] = "file" => fsStart[p][path] = "file"
      /\ (fsStart[p][dir(cfg[p])] = "absent" => fs = fsStart[p] /\ trace[p] = <<>>)

\* A run has returned the error of validate about a missing target directory.
C5_Witness ==
  \E p \in Procs : \E e \in Entries(p) :
    /\ e.op = "run"
    /\ e.res = Err("pin path does not exist", "", "")
    /\ e.vres = e.res
    /\ ValidateFailed(p)

\* C6: when the per-kind subdirectory path of a requested kind exists and
\* is not a directory, validate fails with a configuration error.
C6_SubdirNotDirFails ==
  \A p \in Procs :
    (/\ vres[p] # NotReturned
     /\ \E k \in Requested(cfg[p]) :
          fsStart[p][parent_dir_for_namespace(cfg[p], k)] = "file")
      => ~vres[p].ok /\ vres[p].msg \in ConfigErrors

\* C7: when validate succeeds, the per-kind subdirectory of every requested
\* kind exists and is a directory, and no subdirectory was created for a kind
\* that is not requested.
C7_ValidateEstablishesSubdirs ==
  \A p \in Procs :
    vres[p].ok =>
      /\ \A k \in Requested(cfg[p]) :
           fs[parent_dir_for_namespace(cfg[p], k)] = "dir"
      /\ \A k \in Kinds \ Requested(cfg[p]) :
           fs[parent_dir_for_namespace(cfg[p], k)]
             = fsStart[p][parent_dir_for_namespace(cfg[p], k)]

\* C8: validate is idempotent: of two calls of validate in a row on the same
\* configuration, the first of which succeeds, the second succeeds too,
\* makes no system call that changes the file system and leaves the file
\* system as the first call left it; it never gets to create_dir.
C8_ValidateIdempotent ==
  \A p \in Procs :
    /\ \A i \in DOMAIN log[p] :
         (i > 1 /\ log[p][i - 1].op = "validate" /\ log[p][i - 1].res.ok
                /\ log[p][i].op = "validate")
           => /\ log[p][i].res.ok
              /\ log[p][i].trace = <<>>
              /\ log[p][i].fsStart = log[p][i - 1].fsEnd
              /\ log[p][i].fsEnd = log[p][i - 1].fsEnd
    /\ (/\ log[p] # <<>>
        /\ log[p][Len(log[p])].op = "validate" /\ log[p][Len(log[p])].res.ok
        /\ op[p] = "validate")
         => pc[p] # "create_dir" /\ ~ValidateFailed(p)

\* validate has succeeded twice in a row, the first call having created the
\* subdirectories of two kinds.
C8_Witness ==
  \E p \in Procs :
    /\ Len(log[p]) >= 2
    /\ log[p][1].op = "validate" /\ log[p][1].res.ok
    /\ log[p][2].op = "validate" /\ log[p][2].res.ok
    /\ Len(log[p][1].trace) >= 2
    /\ \A i \in DOMAIN log[p][1].trace :
         log[p][1].trace[i].ev = "create_dir" /\ Succeeded(log[p][1].trace[i])

\* C9: when a file already exists at the bind target of a requested kind,
\* target_directory/<kind>ns/file_name, as that kind is bound, binding it
\* fails with EEXIST, nothing is mounted for it, and the file stays as it is.
C9_ExistingBindTargetFails ==
  \A p \in Procs : \A i \in DOMAIN trace[p] :
    LET e == trace[p][i]
    IN  (e.ev = "open" /\ fsStart[p][DocumentedPath(cfg[p], e.kind)] = "file")
          => /\ e.errno = "EEXIST"
             /\ \A j \in DOMAIN trace[p] :
                  ~(trace[p][j].ev = "mount" /\ trace[p][j].kind = e.kind)
             /\ fs[DocumentedPath(cfg[p], e.kind)] = "file"

\* No step removes a file, a directory or a mount.
NoRemoval ==
  /\ mounts \subseteq mounts'
  /\ \A path \in Paths : exists(fs, path) => fs'[path] = fs[path]

\* When a run returns the error of binding a kind, every requested kind
\* before it in the order of binding is bound: its file and its mount are in
\* place.
EarlierBindsRemain ==
  \A p \in Procs : \A e \in Entries(p) :
    (e.op = "run" /\ e.vres.ok /\ ~e.res.ok /\ e.res.kind \in Kinds) =>
      \A k \in Requested(cfg[p]) :
        Position(k) < Position(e.res.kind) => Bound(p, e, k)

\* C10: binding is never rolled back: no step of a run removes a file, a
\* directory or a mount, and when binding the N-th requested kind fails, the
\* files and mounts of the requested kinds before it are in place when the
\* run returns its error.
C10_NoRollback == [][NoRemoval]_vars /\ []EarlierBindsRemain

\* A run has returned the error of binding a kind whose backing file could
\* not be created, with a requested kind before it bound.
C10_Witness ==
  \E p \in Procs : \E e \in Entries(p) :
    /\ e.op = "run" /\ ~e.res.ok
    /\ e.res.msg = "unable to create namespace file"
    /\ \E k \in Requested(cfg[p]) :
         Position(k) < Position(e.res.kind) /\ Bound(p, e, k)

\* The system calls of Pinns::bind_namespace.
BindCalls == {"open", "close", "mount"}

\* The kinds requested by c that come after kind k in the order of binding.
RequestedAfter(c, k) == {j \in Requested(c) : Position(j) > Position(k)}

\* The kinds requested by c that come before kind k in the order of binding.
RequestedBefore(c, k) == {j \in Requested(c) : Position(j) < Position(k)}

\* C11: binding is fail-fast: the requested kinds are bound in the order
\* cgroup, ipc, net, pid, user, uts, none of them skipped; a system call
\* that fails is the last one of the run, so that after the first kind
\* whose file creation or mount fails nothing is created or mounted for a
\* later kind; and the run returns the error of that first failing kind.
C11_FailFast ==
  \A p \in Procs :
    /\ \A i \in DOMAIN trace[p] :
         /\ ~Succeeded(trace[p][i]) => i = Len(trace[p])
         /\ trace[p][i].ev \in BindCalls =>
              /\ trace[p][i].kind \in Requested(cfg[p])
              /\ \A j \in DOMAIN trace[p] :
                   (i < j /\ trace[p][j].ev \in BindCalls)
                     => Position(trace[p][i].kind) <= Position(trace[p][j].kind)
              /\ \A k \in RequestedBefore(cfg[p], trace[p][i].kind) :
                   BoundIn(trace[p], k)
    /\ \A e \in Entries(p) :
         (/\ e.op = "run" /\ e.trace # <<>>
          /\ e.trace[Len(e.trace)].ev \in BindCalls
          /\ ~Succeeded(e.trace[Len(e.trace)]))
           => /\ ~e.res.ok
              /\ e.res.kind = e.trace[Len(e.trace)].kind
              /\ e.res.errno = e.trace[Len(e.trace)].errno
              /\ \A k \in RequestedAfter(cfg[p], e.res.kind) :
                   \A i \in DOMAIN e.trace :
                     e.trace[i].ev \in BindCalls => e.trace[i].kind # k

\* A run has returned the error of a mount that failed for a kind with a
\* requested kind before it, bound, and a requested kind after it, for
\* which nothing was attempted.
C11_Witness ==
  \E p \in Procs : \E e \in Entries(p) :
    /\ e.op = "run"
    /\ e.res.msg = "unable to bind mount namespace"
    /\ RequestedBefore(cfg[p], e.res.kind) # {}
    /\ RequestedAfter(cfg[p], e.res.kind) # {}
    /\ \A k \in RequestedAfter(cfg[p], e.res.kind) :
         \A i \in DOMAIN e.trace :
                     e.trace[i].ev \in BindCalls => e.trace[i].kind # k

\* The unshare flag of kind k: the clone_flag of its entry in the registry,
\* and CLONE_NEWUSER (lib.rs) for the user namespace, which has none.
CloneFlagOf(k) ==
  IF \E i \in DOMAIN Namespaces : Namespaces[i].name = k
  THEN Namespaces[CHOOSE i \in DOMAIN Namespaces : Namespaces[i].name = k].clone_flag
  ELSE "CLONE_NEWUSER"

\* The unshare calls among the system calls t.
UnshareCalls(t) == {i \in DOMAIN t : t[i].ev = "unshare"}

\* C12: in a run whose validation succeeds exactly one unshare call is
\* issued (none before run gets to it, one from then on), and its flags are
\* the flags of the requested kinds, all of them and no other.
C12_OneUnshareWithRequestedFlags ==
  \A p \in Procs :
    /\ Cardinality(UnshareCalls(trace[p])) <= 1
    /\ \A i \in UnshareCalls(trace[p]) :
         trace[p][i].flags = {CloneFlagOf(k) : k \in Requested(cfg[p])}
    /\ (op[p] = "run" /\ vres[p].ok /\ pc[p] # "unshare")
         => Cardinality(UnshareCalls(trace[p])) = 1

\* A run has issued its unshare call with the flags of three kinds.
C12_Witness ==
  \E p \in Procs : \E i \in DOMAIN trace[p] :
    /\ trace[p][i].ev = "unshare"
    /\ Cardinality(trace[p][i].flags) = 3
    /\ Cardinality(Requested(cfg[p])) = 3

\* C13: the phases of a run come in the order validate, unshare, binds:
\* the unshare call is issued only after validate returned Ok, after the
\* directories were made; a file is created or mounted onto only after the
\* unshare call succeeded; the mount of a kind comes after the creation of
\* its file; and when the unshare call fails the run returns its error with
\* no file created and no mount attempted.
C13_PhaseOrder ==
  \A p \in Procs :
    /\ \A i \in DOMAIN trace[p] :
         LET e == trace[p][i]
         IN  /\ e.ev = "unshare" =>
                  /\ vres[p].ok
                  /\ \A j \in DOMAIN trace[p] :
                       trace[p][j].ev = "create_dir" => j < i
             /\ e.ev \in BindCalls =>
                  \E j \in 1..(i - 1) :
                    trace[p][j].ev = "unshare" /\ Succeeded(trace[p][j])
             /\ e.ev = "mount" =>
                  \E j \in 1..(i - 1) :
                    /\ trace[p][j].ev = "open" /\ Succeeded(trace[p][j])
                    /\ trace[p][j].kind = e.kind /\ trace[p][j].path = e.path
    /\ \A e \in Entries(p) :
         (\E i \in DOMAIN e.trace :
            e.trace[i].ev = "unshare" /\ ~Succeeded(e.trace[i]))
           => /\ e.res = Err("failed to unshare namespaces", "EPERM", "")
              /\ \A i \in DOMAIN e.trace : e.trace[i].ev \notin BindCalls
              /\ \A path \in Paths :
                   e.fsEnd[path] = "file" => e.fsStart[path] = "file"
              /\ \A m \in e.mountsEnd : m.proc # p

\* A run has made a directory, then issued its unshare call, then created a
\* file and mounted onto it.
C13_Witness ==
  \E p \in Procs : \E i, j, k, l \in DOMAIN trace[p] :
    /\ i < j /\ j < k /\ k < l
    /\ trace[p][i].ev = "create_dir" /\ Succeeded(trace[p][i])
    /\ trace[p][j].ev = "unshare" /\ Succeeded(trace[p][j])
    /\ trace[p][k].ev = "open" /\ Succeeded(trace[p][k])
    /\ trace[p][l].ev = "mount" /\ Succeeded(trace[p][l])

\* The number of unshare calls in the first n returned calls of process p.
RECURSIVE UnshareCallsReturned(_, _)
UnshareCallsReturned(p, n) ==
  IF n = 0 THEN 0
  ELSE UnshareCallsReturned(p, n - 1) + Cardinality(UnshareCalls(log[p][n].trace))

\* The number of unshare calls process p has issued so far, in the calls
\* that returned and in the one in progress.
UnshareCallsIssued(p) ==
  UnshareCallsReturned(p, Len(log[p]))
    + (IF pc[p] \in {"idle", "off"} THEN 0 ELSE Cardinality(UnshareCalls(trace[p])))

\* C17: over any sequence of calls of Pinns::run in one process, whatever
\* each of them returns, the unshare call is issued at most once: it is not
\* issued again after it succeeded and not retried after it failed.
C17_UnshareOncePerProcess ==
  \A p \in Procs : UnshareCallsIssued(p) <= 1

\* A process whose first run failed in the unshare call has called run again,
\* and that run has returned without an unshare call.
C17_Witness ==
  \E p \in Procs :
    /\ Len(log[p]) >= 2
    /\ \E i \in DOMAIN log[p][1].trace :
         log[p][1].trace[i].ev = "unshare" /\ ~Succeeded(log[p][1].trace[i])
    /\ log[p][2].op = "run"
    /\ ~log[p][2].res.ok
    /\ UnshareCalls(log[p][2].trace) = {}

\* Process p called create_dir for path and it failed because the path
\* existed by then.
CreateDirRaced(p, path) ==
  \E i \in DOMAIN trace[p] :
    /\ trace[p][i].ev = "create_dir"
    /\ trace[p][i].path = path
    /\ trace[p][i].errno = "EEXIST"

\* Process p made the directory path.
CreatedDir(p, path) ==
  \E i \in DOMAIN trace[p] :
    /\ trace[p][i].ev = "create_dir"
    /\ trace[p][i].path = path
    /\ Succeeded(trace[p][i])

\* C16: the check and the create_dir of validate are two steps. create_dir
\* fails on a path that exists only when another process made that path a
\* directory after validate found it missing: the path was missing when
\* validate was called, it is a directory now, validate failed all the same,
\* and a process other than the one that failed created it. With a single
\* writer there is no such other process and the failure cannot happen.
C16_CreateDirRace ==
  \A p \in Procs : \A path \in Paths :
    CreateDirRaced(p, path) =>
      /\ fsStart[p][path] = "absent"
      /\ fs[path] = "dir"
      /\ ValidateFailed(p)
      /\ \E q \in Procs \ {p} : CreatedDir(q, path)

\* validate of one process has failed in create_dir on a path that another
\* process had made a directory in between.
C16_Witness ==
  \E p \in Procs : \E path \in Paths :
    /\ CreateDirRaced(p, path)
    /\ fs[path] = "dir"
    /\ \E e \in Entries(p) : e.res = Err("create_dir", "EEXIST", e.res.kind)
    /\ \E q \in Procs \ {p} : CreatedDir(q, path)

\* Process p created the backing file at path with its exclusive open.
CreatedFile(p, path) ==
  \E i \in DOMAIN trace[p] :
    /\ trace[p][i].ev = "open"
    /\ trace[p][i].path = path
    /\ Succeeded(trace[p][i])

\* Process p called mount with the target path, whatever came of it.
MountAttempted(p, path) ==
  \E i \in DOMAIN trace[p] : trace[p][i].ev = "mount" /\ trace[p][i].path = path

\* C15: of two processes that run the pinner at the same time with the same
\* target directory, file name and kinds, under every interleaving at most
\* one creates the backing file of a kind. The other one, when it gets to
\* the exclusive creation of that file, fails there, returns that error and
\* attempts no mount onto the path; so no path is mounted onto by two runs.
C15_ExclusiveCreateGuardsBindPath ==
  \A path \in Paths :
    /\ \A p, q \in Procs :
         (CreatedFile(p, path) /\ q # p) =>
           /\ ~CreatedFile(q, path)
           /\ ~MountAttempted(q, path)
           /\ \A i \in DOMAIN trace[q] :
                (trace[q][i].ev = "open" /\ trace[q][i].path = path)
                  => /\ trace[q][i].errno \in {"EEXIST", "EIO"}
                     /\ i = Len(trace[q])
                     /\ \E e \in Entries(q) :
                          e.res = Err("unable to create namespace file",
                                      trace[q][i].errno, trace[q][i].kind)
    /\ \A m1, m2 \in mounts : m1.target = m2.target => m1.proc = m2.proc

\* One process has created the backing file of a kind and mounted onto it,
\* and the other has failed with EEXIST in the exclusive creation of the same
\* file and returned without a mount.
C15_Witness ==
  \E p, q \in Procs : \E path \in Paths :
    /\ p # q
    /\ CreatedFile(p, path)
    /\ \E m \in mounts : m.target = path /\ m.proc = p
    /\ \E i \in DOMAIN trace[q] :
         /\ trace[q][i].ev = "open" /\ trace[q][i].path = path
         /\ trace[q][i].errno = "EEXIST"
    /\ ~MountAttempted(q, path)
    /\ \E e \in Entries(q) : ~e.res.ok

\* The kinds given on the command line of process p.
Given(p) == {argv[p][i] : i \in DOMAIN argv[p]}

\* The namespace kinds of the system calls named ev in t, in their order.
KindsOf(t, ev) ==
  LET isEv(e) == e.ev = ev
      calls == SelectSeq(t, isEv)
  IN  [i \in DOMAIN calls |-> calls[i].kind]

\* The kinds of the set S in the order of binding.
InBindOrder(S) == LET inS(k) == k \in S IN SelectSeq(BindOrder, inS)

IsPrefix(s, t) == Len(s) <= Len(t) /\ \A i \in DOMAIN s : s[i] = t[i]

\* C14: what a run does depends on the set of kinds given on the command
\* line and not on their order: the Config is the one of that set, the flags
\* of the unshare call are the flags of that set, the kinds are bound in the
\* order cgroup, ipc, net, pid, user, uts of that set (all of them when the
\* run returns Ok), and the enabled descriptors validate enumerates come in
\* the order of the registry whenever they are enumerated.
C14_OrderOfRequestIrrelevant ==
  \A p \in Procs :
    /\ Requested(cfg[p]) = Given(p)
    /\ cfg[p] = parse(InBindOrder(Given(p)))
    /\ \A i \in UnshareCalls(trace[p]) :
         trace[p][i].flags = {CloneFlagOf(k) : k \in Given(p)}
    /\ IsPrefix(KindsOf(trace[p], "open"), InBindOrder(Given(p)))
    /\ IsPrefix(KindsOf(trace[p], "mount"), InBindOrder(Given(p)))
    /\ \A e \in Entries(p) :
         e.res.ok => KindsOf(e.trace, "mount") = InBindOrder(Given(p))
    /\ LET names == [i \in DOMAIN EnabledNamespaces(enabled[p]) |->
                       EnabledNamespaces(enabled[p])[i].name]
       IN  /\ names = InBindOrder(enabled[p])
           /\ \A i, j \in DOMAIN trace[p] :
                (/\ i < j
                 /\ trace[p][i].ev = "create_dir"
                 /\ trace[p][j].ev = "create_dir")
                  => Position(trace[p][i].kind) < Position(trace[p][j].kind)

\* A run whose command line gives three kinds in the reverse of the order of
\* binding has returned Ok, the first kind bound being the last one given.
C14_Witness ==
  \E p \in Procs : \E e \in Entries(p) :
    /\ e.op = "run" /\ e.res.ok
    /\ Len(argv[p]) = 3
    /\ \A i, j \in DOMAIN argv[p] :
         i < j => Position(argv[p][i]) > Position(argv[p][j])
    /\ KindsOf(e.trace, "open")[1] = argv[p][3]

\* The kinds of the registry and the position of each in it.
RegistryKinds == {Namespaces[i].name : i \in DOMAIN Namespaces}

RegistryPosition(k) == CHOOSE i \in DOMAIN Namespaces : Namespaces[i].name = k

\* The per-kind subdirectory of kind k for process p.
SubdirOf(p, k) == parent_dir_for_namespace(cfg[p], k)

\* The call e made the directory path.
CreatedDirIn(e, path) ==
  \E i \in DOMAIN e.trace :
    /\ e.trace[i].ev = "create_dir"
    /\ e.trace[i].path = path
    /\ Succeeded(e.trace[i])

\* C18 as the specification states it: in a run that returns Ok, for every
\* kind of cgroup, ipc, net, pid, user and uts, validate covered the kind
\* (its subdirectory is a directory when validate is done, made by validate
\* if it was missing) if and only if its flag is in the unshare call, if and
\* only if a bind was attempted for it.
C18_PhasesAgreeOnKinds ==
  \A p \in Procs : \A e \in Entries(p) :
    (e.op = "run" /\ e.res.ok) =>
      \A k \in Kinds :
        LET validated == /\ k \in enabled[p]
                         /\ e.fsEnd[SubdirOf(p, k)] = "dir"
            unshared == \E i \in UnshareCalls(e.trace) :
                          CloneFlagOf(k) \in e.trace[i].flags
            bound == \E i \in DOMAIN e.trace :
                       e.trace[i].ev = "open" /\ e.trace[i].kind = k
        IN  /\ validated <=> unshared
            /\ unshared <=> bound

C20_ExistingTargetFailsAfterUnshare ==
  \A p \in Procs : \A e \in Entries(p) :
    \A k \in Requested(cfg[p]) :
      (/\ e.op = "run"
       /\ e.vres.ok
       /\ e.fsStart[DocumentedPath(cfg[p], k)] = "file"
       /\ \E i \in UnshareCalls(e.trace) : Succeeded(e.trace[i])
       /\ \A j \in RequestedBefore(cfg[p], k) : BoundIn(e.trace, j))
        => /\ e.res.msg = "unable to create namespace file"
           /\ e.res.kind = k

====
